---- MODULE Spec2Model ----
(***************************************************************************)
(* A model of block.py: Amount, Transaction and Block records, their dict  *)
(* conversions, the canonical hash, the persistence round trip and the     *)
(* mining loop of Node.process_txns.                                       *)
(*                                                                         *)
(* Python objects are records tagged with a cls field, dicts are records   *)
(* without it, so todict/fromdict are real conversions.  A Python list is  *)
(* a cell of the heap `lists`; a Block holds a reference to the list it    *)
(* was built with, as in the source.  Strings of hex characters (digests,  *)
(* prev_hash) are sequences of digits 0..15; "" is <<>>.                   *)
(***************************************************************************)
EXTENDS Integers, Sequences, FiniteSets, TLC

\* ------------------------------------------------------------------ bounds
\* Number of hex characters of a digest (64 for sha256, scaled down).
HashLen == 2
\* Longest chain a behaviour builds.
MaxBlocks == 2
\* Largest reading of the clock.
MaxTime == 2
\* Most rows the Blocks table holds.
MaxRows == 2

\* ------------------------------------------------------- program constants
MINING_COST == 1
\* Python's None, for an optional number (timestamp, nonce).
None == -1

HexBase == 16
Modulus == HexBase ^ HashLen
\* The nonce is an unbounded Python int; the model stops counting here, after
\* the digests of one block have taken every value of the digest space.
MaxNonce == Modulus
\* Difficulties a caller passes: no proof of work or the default of
\* process_txns (under Spec and SpecDb), or any up to one more than the length
\* of a digest (under SpecMine and FairSpec).
Difficulties == 0 .. 1
AllDifficulties == 0 .. (HashLen + 1)
\* Timestamp arguments a caller passes.
TimestampArgs == {None, 0, 1}
\* Identities of nodes and owners.
Identities == {"matt", "fred"}

VARIABLES
    uuid,       \* Node.uuid
    blocks,     \* Node.blocks: the chain, a sequence of Block objects
    lists,      \* heap of Python list objects holding Transactions
    now,        \* the reading time.time() gives
    pc,         \* "idle", or "mining" inside the while loop of process_txns
    block,      \* process_txns local: the Block being mined
    nonce,      \* process_txns local: the candidate nonce
    arg,        \* the arguments of the current or last process_txns call
    ret,        \* what the last process_txns call returned
    db,         \* rows of the Blocks table
    stored,     \* for each row, the value of the block to_db wrote it from
    loaded,     \* what the last from_db returned
    rt          \* a Transaction taken through todict and fromdict

vars == <<uuid, blocks, lists, now, pc, block, nonce, arg, ret, db, stored, loaded, rt>>

\* ------------------------------------------------------------------ Amount
Amount(u, a) == [cls |-> "Amount", uuid |-> u, amount |-> a]

Amount_eq(x, y) == x.uuid = y.uuid /\ x.amount = y.amount

Amount_todict(a) == [uuid |-> a.uuid, amount |-> a.amount]

Amount_fromdict(d) == Amount(d.uuid, d.amount)

\* ------------------------------------------------------------- Transaction
\* `timestamp or time.time()`: None and 0 are both falsy.
Truthy(x) == x # None /\ x # 0

Transaction(inputs, outputs, timestamp, clock) ==
    [cls |-> "Transaction", inputs |-> inputs, outputs |-> outputs,
     timestamp |-> IF Truthy(timestamp) THEN timestamp ELSE clock]

\* list == list: same length and equal element by element.
AmountList_eq(xs, ys) ==
    /\ Len(xs) = Len(ys)
    /\ \A i \in 1 .. Len(xs) : Amount_eq(xs[i], ys[i])

Transaction_eq(s, o) ==
    /\ AmountList_eq(s.inputs, o.inputs)
    /\ AmountList_eq(s.outputs, o.outputs)
    /\ s.timestamp = o.timestamp

Transaction_todict(t) ==
    [inputs |-> [i \in 1 .. Len(t.inputs) |-> Amount_todict(t.inputs[i])],
     outputs |-> [i \in 1 .. Len(t.outputs) |-> Amount_todict(t.outputs[i])],
     timestamp |-> t.timestamp]

\* A variant that does not pass the stored timestamp on.
Transaction_fromdict_NoTimestamp(d, clock) ==
    Transaction([i \in 1 .. Len(d.inputs) |-> Amount_fromdict(d.inputs[i])],
                [i \in 1 .. Len(d.outputs) |-> Amount_fromdict(d.outputs[i])],
                None, clock)

Transaction_fromdict(d, clock) ==
    LET ts == d.timestamp
        inputs == [i \in 1 .. Len(d.inputs) |-> Amount_fromdict(d.inputs[i])]
        outputs == [i \in 1 .. Len(d.outputs) |-> Amount_fromdict(d.outputs[i])]
    IN  Transaction(inputs, outputs, ts, clock)

\* ----------------------------------------------------------- canonical hash
\* json.dumps(dict_data, sort_keys=True) followed by sha256, scaled down to
\* HashLen hex characters.  The digest state starts at a fixed value and
\* absorbs the values of a dict in sorted key order, the elements of a list
\* and the characters of a string in order; a nested dict, list or string is
\* absorbed as its own state.  Absorbing is a bijection of the digest space
\* for each absorbed value, so equal data give equal digests and the digests
\* of one block over Modulus successive nonces are all different.
StartState == 7 % Modulus

\* A bijection of the digest space that spreads a change over all characters.
Scramble(x) == CHOOSE y \in {(v * (2 * v + 1)) % Modulus : v \in {x}} : TRUE

Absorb(h, c) == Scramble((5 * h + c + 1) % Modulus)

\* The state after absorbing cs[1] .. cs[i] in order.
RECURSIVE AbsorbUpTo(_, _)
AbsorbUpTo(cs, i) == IF i = 0 THEN StartState ELSE Absorb(AbsorbUpTo(cs, i - 1), cs[i])

\* The characters of a string.
DumpsSeq(cs) == AbsorbUpTo(cs, Len(cs))

\* The characters of an identifier.
Chars(u) == CASE u = "matt" -> <<3, 1>> [] u = "fred" -> <<2, 4>>

\* null, or a number.
DumpsNum(n) == IF n = None THEN 0 ELSE Absorb(StartState, n)

\* keys in sorted order: amount, uuid
DumpsAmount(d) == Absorb(Absorb(StartState, DumpsNum(d.amount)), DumpsSeq(Chars(d.uuid)))

\* A list of Amount dicts, up to element i.
RECURSIVE DumpsAmounts(_, _)
DumpsAmounts(ds, i) ==
    IF i = 0 THEN StartState ELSE Absorb(DumpsAmounts(ds, i - 1), DumpsAmount(ds[i]))

\* keys in sorted order: inputs, outputs, timestamp
DumpsTransaction(d) ==
    Absorb(Absorb(Absorb(StartState, DumpsAmounts(d.inputs, Len(d.inputs))),
                  DumpsAmounts(d.outputs, Len(d.outputs))),
           DumpsNum(d.timestamp))

\* A list of Transaction dicts, up to element i.
RECURSIVE DumpsTransactions(_, _)
DumpsTransactions(ds, i) ==
    IF i = 0 THEN StartState ELSE Absorb(DumpsTransactions(ds, i - 1), DumpsTransaction(ds[i]))

\* the body: its only key is txns
DumpsBody(d) == Absorb(StartState, DumpsTransactions(d.txns, Len(d.txns)))

\* keys in sorted order: body_hash, difficulty, nonce, prev_hash
DumpsHeader(d) ==
    Absorb(Absorb(Absorb(Absorb(StartState, DumpsSeq(d.body_hash)),
                         DumpsNum(d.difficulty)),
                  DumpsNum(d.nonce)),
           DumpsSeq(d.prev_hash))

\* The digest state of a block dict (keys in sorted order: body, header), as
\* Block.get_hash passes, or of a body dict, as Block.todict passes.
sha256_json_dumps(data) ==
    IF "header" \in DOMAIN data
    THEN Absorb(Absorb(StartState, DumpsBody(data.body)), DumpsHeader(data.header))
    ELSE DumpsBody(data)

hexdigest(h) == [i \in 1 .. HashLen |-> (h \div (HexBase ^ (HashLen - i))) % HexBase]

\* data and sha are evaluated once, as the locals of the source are.
get_hash(dict_data) ==
    CHOOSE hash \in {hexdigest(sha) : sha \in {sha256_json_dumps(data) : data \in {dict_data}}} :
        TRUE

\* ------------------------------------------------------------------- Block
\* A Block object; txns is a reference into `lists`.
Block(id, txns, prev_hash, difficulty) ==
    [cls |-> "Block", id |-> id, prev_hash |-> prev_hash, txns |-> txns,
     nonce |-> None, difficulty |-> difficulty]

\* The block with its list dereferenced: txns is the sequence of Transactions.
ValIn(heap, b) == [b EXCEPT !.txns = heap[b.txns]]
Val(b) == ValIn(lists, b)

TxnList_eq(xs, ys) ==
    /\ Len(xs) = Len(ys)
    /\ \A i \in 1 .. Len(xs) : Transaction_eq(xs[i], ys[i])

\* Block.__eq__, on dereferenced blocks.
Block_eq(s, o) == s.prev_hash = o.prev_hash /\ TxnList_eq(s.txns, o.txns)

\* Block.todict, on a dereferenced block.
Block_todict(self, n) ==
    LET nn == IF n # None THEN n ELSE self.nonce
        body == [txns |-> [i \in 1 .. Len(self.txns) |-> Transaction_todict(self.txns[i])]]
    IN  [header |-> [prev_hash |-> self.prev_hash,
                     body_hash |-> get_hash(body),
                     difficulty |-> self.difficulty,
                     nonce |-> nn],
         body |-> body]

\* A variant that leaves the difficulty at the default of process_txns.
Block_fromdict_DefaultDifficulty(d, clock) ==
    Block(0, [i \in 1 .. Len(d.body.txns) |-> Transaction_fromdict(d.body.txns[i], clock)],
          d.header.prev_hash, 1)

\* Block.fromdict: a new Block (identity 0: not an object of the node) with a
\* new list, given by value.
Block_fromdict(d, clock) ==
    LET prev_hash == d.header.prev_hash
        difficulty == d.header.difficulty
        txns == [i \in 1 .. Len(d.body.txns) |-> Transaction_fromdict(d.body.txns[i], clock)]
    IN  Block(0, txns, prev_hash, difficulty)

Block_get_hash(self, n) == get_hash(Block_todict(self, n))

\* A variant that never accepts a digest made of zeros only.
StartsWithZeros_Strict(hash, difficulty) ==
    /\ difficulty < Len(hash)
    /\ \A i \in 1 .. difficulty : hash[i] = 0

\* hash.startswith("0" * difficulty)
StartsWithZeros(hash, difficulty) ==
    /\ difficulty <= Len(hash)
    /\ \A i \in 1 .. difficulty : hash[i] = 0

validate_hash(b, hash) == Block_get_hash(b, b.nonce) = hash

\* -------------------------------------------------------------------- Node
\* Transactions a caller builds before the call, and the batches it passes.
CallerTxn1 ==
    Transaction(<<Amount("matt", 2)>>, <<Amount("matt", 1), Amount("fred", 1)>>, 1, 1)
CallerTxn2 == Transaction(<<>>, <<Amount("fred", 1)>>, 2, 2)
Batches == {<<>>, <<CallerTxn1, CallerTxn2>>}

NoBlock == Block(0, 0, <<>>, 0)
NoCall == [list |-> 0, txns |-> <<>>, difficulty |-> 0, timestamp |-> None]
NoReturn == [block |-> 0, hash |-> <<>>]
NoTransaction == Transaction(<<>>, <<>>, None, 0)
NoRt == [stage |-> "none", timestamp |-> None, t |-> NoTransaction,
         d |-> Transaction_todict(NoTransaction), back |-> NoTransaction]

Init ==
    /\ uuid \in Identities
    /\ blocks = <<>>
    /\ lists = <<>>
    /\ now = 1
    /\ pc = "idle"
    /\ block = NoBlock
    /\ nonce = 0
    /\ arg = NoCall
    /\ ret = NoReturn
    /\ db = <<>>
    /\ stored = <<>>
    /\ loaded = <<>>
    /\ rt = NoRt

\* time.time() advances.  Nothing reads the clock inside the mining loop, so
\* the time that passes there is taken after the call returns.
Tick ==
    /\ pc = "idle"
    /\ now < MaxTime
    /\ now' = now + 1
    /\ UNCHANGED <<uuid, blocks, lists, pc, block, nonce, arg, ret, db, stored, loaded, rt>>

\* The coinbase Transaction process_txns builds.
Coinbase(u, timestamp, clock) == Transaction(<<>>, <<Amount(u, MINING_COST)>>, timestamp, clock)

\* A variant that puts the element at the end of the list.
ListInsert0_AtEnd(l, x) == l \o <<x>>

\* txns.insert(0, x)
ListInsert0(l, x) == <<x>> \o l

\* A variant that links to the digest of the chain tail.
PrevHashOf_Digest(chain) ==
    IF chain # <<>>
    THEN Block_get_hash(Val(chain[Len(chain)]), chain[Len(chain)].nonce)
    ELSE <<>>

\* self.blocks[-1].prev_hash if self.blocks else ""
PrevHashOf(chain) == IF chain # <<>> THEN chain[Len(chain)].prev_hash ELSE <<>>

\* A variant that starts the search one too late.
FirstNonce_One == 0 + 1

\* nonce = 0, the first candidate of the search.
FirstNonce == 0

\* block.nonce = nonce
SetNonce(b, n) == [b EXCEPT !.nonce = n]

\* A variant that puts the block at the head of the chain.
ChainAppend_AtHead(chain, b) == <<b>> \o chain

\* self.blocks.append(block)
ChainAppend(chain, b) == Append(chain, b)

\* process_txns up to the while loop.  The caller passes either a new list
\* (l = 0, holding batch) or a list object it passed to an earlier call.
ProcessTxns(l, batch, difficulty, timestamp) ==
    /\ pc = "idle"
    /\ Len(blocks) < MaxBlocks
    /\ LET ref == IF l = 0 THEN Len(lists) + 1 ELSE l
           before == IF l = 0 THEN batch ELSE lists[l]
           after == ListInsert0(before, Coinbase(uuid, timestamp, now))
       IN  /\ lists' = IF l = 0 THEN Append(lists, after) ELSE [lists EXCEPT ![l] = after]
           /\ arg' = [list |-> ref, txns |-> before, difficulty |-> difficulty,
                      timestamp |-> timestamp]
           /\ block' = Block(Len(blocks) + 1, ref, PrevHashOf(blocks), difficulty)
    /\ nonce' = FirstNonce
    /\ pc' = "mining"
    /\ ret' = NoReturn
    /\ UNCHANGED <<uuid, blocks, now, db, stored, loaded, rt>>

\* One iteration of the while loop of process_txns.
MineStep ==
    /\ pc = "mining"
    /\ \E hash \in {Block_get_hash(Val(block), nonce)} :
           IF StartsWithZeros(hash, block.difficulty)
           THEN /\ blocks' = ChainAppend(blocks, SetNonce(block, nonce))
                /\ ret' = [block |-> block.id, hash |-> hash]
                /\ pc' = "idle"
                /\ block' = NoBlock
                /\ nonce' = 0
           ELSE /\ nonce < MaxNonce
                /\ nonce' = nonce + 1
                /\ UNCHANGED <<blocks, ret, pc, block>>
    /\ UNCHANGED <<uuid, lists, now, arg, db, stored, loaded, rt>>

\* A call of process_txns with any arguments.
Call ==
    \E l \in 0 .. Len(lists), batch \in Batches, d \in Difficulties, ts \in TimestampArgs :
        /\ (l # 0 => batch = <<>>)
        /\ ProcessTxns(l, batch, d, ts)

Next ==
    \/ Tick
    \/ Call
    \/ MineStep

Spec == Init /\ [][Next]_vars

\* A call of process_txns with the default timestamp and any difficulty, on a
\* new empty list or on a list passed before.
LongCall ==
    \E l \in 0 .. Len(lists), d \in AllDifficulties :
        ProcessTxns(l, <<>>, d, None)

NextMine ==
    \/ LongCall
    \/ MineStep

\* The node of __main__.
InitMine == Init /\ uuid = "matt"

SpecMine == InitMine /\ [][NextMine]_vars

\* The mining loop is the only thing the single thread does until it returns.
FairSpec == SpecMine /\ WF_vars(MineStep)

\* ------------------------------------------------------------- persistence
\* to_db: one row per block of the chain, holding the block's dict (the JSON
\* text of a dict of strings, numbers, None and lists parses back to it).
to_db ==
    /\ pc = "idle"
    /\ blocks # <<>>
    /\ Len(db) + Len(blocks) <= MaxRows
    /\ db' = db \o [i \in 1 .. Len(blocks) |-> Block_todict(Val(blocks[i]), None)]
    /\ stored' = stored \o [i \in 1 .. Len(blocks) |-> Val(blocks[i])]
    /\ UNCHANGED <<uuid, blocks, lists, now, pc, block, nonce, arg, ret, loaded, rt>>

\* from_db: every row, in order, through Block.fromdict.
from_db ==
    /\ pc = "idle"
    /\ db # <<>>
    /\ loaded' = [i \in 1 .. Len(db) |-> Block_fromdict(db[i], now)]
    /\ UNCHANGED <<uuid, blocks, lists, now, pc, block, nonce, arg, ret, db, stored, rt>>

\* A call of process_txns with the default timestamp, to build the chains
\* that are stored.
DefaultCall ==
    \E l \in 0 .. Len(lists), batch \in Batches, d \in Difficulties :
        /\ (l # 0 => batch = <<>>)
        /\ ProcessTxns(l, batch, d, None)

NextDb ==
    \/ Tick
    \/ DefaultCall
    \/ MineStep
    \/ to_db
    \/ from_db

SpecDb == Init /\ [][NextDb]_vars

\* ------------------------------------------------- Transaction round trip
\* Lists of Amount a caller builds.
AmountLists ==
    {<<>>, <<Amount("matt", 1)>>, <<Amount("matt", 1), Amount("fred", 2)>>,
     <<Amount("fred", 2), Amount("matt", 1)>>}

\* t = Transaction(inputs, outputs, timestamp)
NewTransaction(inputs, outputs, timestamp) ==
    /\ rt.stage = "none"
    /\ rt' = [rt EXCEPT !.stage = "made", !.timestamp = timestamp,
                        !.t = Transaction(inputs, outputs, timestamp, now)]
    /\ UNCHANGED <<uuid, blocks, lists, now, pc, block, nonce, arg, ret, db, stored, loaded>>

\* d = t.todict()
TodictTransaction ==
    /\ rt.stage = "made"
    /\ rt' = [rt EXCEPT !.stage = "dict", !.d = Transaction_todict(rt.t)]
    /\ UNCHANGED <<uuid, blocks, lists, now, pc, block, nonce, arg, ret, db, stored, loaded>>

\* back = Transaction.fromdict(d)
FromdictTransaction ==
    /\ rt.stage = "dict"
    /\ rt' = [rt EXCEPT !.stage = "back", !.back = Transaction_fromdict(rt.d, now)]
    /\ UNCHANGED <<uuid, blocks, lists, now, pc, block, nonce, arg, ret, db, stored, loaded>>

NextRt ==
    \/ Tick
    \/ \E inputs \in AmountLists, outputs \in AmountLists, ts \in TimestampArgs :
           NewTransaction(inputs, outputs, ts)
    \/ TodictTransaction
    \/ FromdictTransaction

SpecRt == Init /\ [][NextRt]_vars

\* ================================================================== claims
\* The block the last call returned: the tail of the chain.
Returned == pc = "idle" /\ ret # NoReturn
LastBlock == blocks[Len(blocks)]

ProofOfWork(b) == StartsWithZeros(Block_get_hash(Val(b), b.nonce), b.difficulty)

\* C1: every block of the chain satisfies the proof-of-work condition on its
\* current fields: its digest for its stored nonce starts with difficulty
\* zeros.  (Stated as claimed; the code violates it.)
C1_ChainProofOfWork == \A i \in 1 .. Len(blocks) : ProofOfWork(blocks[i])

\* C2: once a block is in the chain none of its fields (txns, prev_hash,
\* difficulty, nonce) changes, whatever list the caller passes.  (Stated as
\* claimed; the code violates it.)
C2_BlocksImmutable ==
    [][\A i \in 1 .. Len(blocks) : ValIn(lists', blocks'[i]) = ValIn(lists, blocks[i])]_vars

\* C3: the chain is append-only: a step changes the length of the chain
\* exactly when a call completes, then by one with the newly solved block at
\* the end; every block stays at its index; no block of the chain has nonce
\* None.
C3_AppendOnly ==
    [][/\ (Len(blocks') # Len(blocks)) <=> (pc = "mining" /\ pc' = "idle")
       /\ (pc = "mining" /\ pc' = "idle") =>
              /\ Len(blocks') = Len(blocks) + 1
              /\ blocks'[Len(blocks')].id = block.id
              /\ ret'.block = block.id
       /\ Len(blocks') >= Len(blocks)
       /\ \A i \in 1 .. Len(blocks) : blocks'[i].id = blocks[i].id
       /\ \A i \in 1 .. Len(blocks') : blocks'[i].nonce # None]_vars

C3_Witness ==
    /\ Returned
    /\ Len(blocks) = 2
    /\ blocks[1].id = 1
    /\ blocks[2].id = 2

\* C4: the txns of the appended block are one coinbase Transaction (inputs
\* empty, outputs exactly [Amount(uuid, 1)]) followed by the transactions the
\* caller supplied, in order.
C4_CoinbaseFirst ==
    Returned =>
        LET txns == lists[LastBlock.txns]
        IN  /\ Len(txns) = Len(arg.txns) + 1
            /\ txns[1].inputs = <<>>
            /\ txns[1].outputs = <<[cls |-> "Amount", uuid |-> uuid, amount |-> 1]>>
            /\ \A i \in 1 .. Len(arg.txns) : txns[i + 1] = arg.txns[i]

C4_Witness ==
    /\ Returned
    /\ Len(arg.txns) >= 2
    /\ arg.txns[1] # arg.txns[2]
    /\ lists[LastBlock.txns] = <<Coinbase(uuid, arg.timestamp, now)>> \o arg.txns

\* C5: the blocks from_db returns are as many as the rows, and each equals,
\* under Block.__eq__ and in difficulty, the block its row was written from.
C5_BlockRoundTrip ==
    /\ Len(loaded) <= Len(stored)
    /\ \A i \in 1 .. Len(loaded) :
           /\ Block_eq(loaded[i], stored[i])
           /\ loaded[i].prev_hash = stored[i].prev_hash
           /\ loaded[i].txns = stored[i].txns
           /\ loaded[i].difficulty = stored[i].difficulty

C5_Witness ==
    /\ Len(loaded) = 2
    /\ Len(db) = 2
    /\ Len(loaded[1].txns) >= 3
    /\ loaded[1].difficulty = 1
    /\ loaded[2].difficulty = 0

\* C6: Transaction.fromdict(t.todict()) == t for a Transaction built with any
\* inputs, outputs and timestamp argument (None and 0 included), with the
\* same timestamp and element-wise equal inputs and outputs.
C6_TransactionRoundTrip ==
    rt.stage = "back" =>
        /\ Transaction_eq(rt.back, rt.t)
        /\ rt.back.timestamp = rt.t.timestamp
        /\ rt.back.inputs = rt.t.inputs
        /\ rt.back.outputs = rt.t.outputs

C6_Witness ==
    /\ rt.stage = "back"
    /\ rt.timestamp = 0
    /\ now > rt.t.timestamp
    /\ Len(rt.t.inputs) = 2
    /\ rt.t.inputs # rt.t.outputs

\* C7: the stored nonce of the returned block is the least n >= 0 whose digest
\* starts with difficulty zeros, the returned hash is the digest for it, and
\* with difficulty 0 the nonce is 0.
C7_LeastNonce ==
    Returned =>
        LET b == Val(LastBlock)
        IN  /\ b.nonce >= 0
            /\ StartsWithZeros(Block_get_hash(b, b.nonce), arg.difficulty)
            /\ \A n \in 0 .. (b.nonce - 1) :
                   ~StartsWithZeros(Block_get_hash(b, n), arg.difficulty)
            /\ ret.hash = Block_get_hash(b, b.nonce)
            /\ (arg.difficulty = 0 => b.nonce = 0)

C7_Witness ==
    /\ Returned
    /\ arg.difficulty = HashLen
    /\ LastBlock.nonce > 1
    /\ Len(blocks) = 2
    /\ blocks[1].difficulty = 1
    /\ ret.hash = [i \in 1 .. HashLen |-> 0]

C9_AlwaysTerminates ==
    \A k \in 1 .. MaxBlocks :
        (pc = "mining" /\ block.id = k) ~> (Returned /\ ret.block = k)

\* C9, amended: for every difficulty d with 0 <= d <= length of a digest the
\* search ends: the block is appended and the call returns.
C9_TerminatesWithinDigest ==
    \A k \in 1 .. MaxBlocks :
        (pc = "mining" /\ block.id = k /\ block.difficulty <= HashLen)
            ~> (Returned /\ ret.block = k /\ Len(blocks) = k)

C9_Witness ==
    /\ Returned
    /\ arg.difficulty = HashLen
    /\ LastBlock.nonce > 0
    /\ Len(blocks) = 2

\* C10: when the caller supplies a timestamp (any number, 0 included) the
\* coinbase Transaction of the resulting block has exactly that timestamp.
\* (Stated as claimed; the code violates it.)
C10_SuppliedTimestampKept ==
    (Returned /\ arg.timestamp # None) =>
        lists[LastBlock.txns][1].timestamp = arg.timestamp

====
